---- MODULE Spec2Model ----
(***************************************************************************)
(* go-flake: k-ordered 64-bit identifiers (src/flake.go).                  *)
(*                                                                         *)
(* A Flake holds prevTime, workerId, sequence and a mutex.  NextId reads   *)
(* the clock, takes the mutex, advances (prevTime, sequence), releases the *)
(* mutex and composes timestamp | workerId | sequence into one uint64.     *)
(*                                                                         *)
(* Numbers.  TLC integers are 32 bits wide, a Flake Id is 64 bits wide.    *)
(* A uint64 is therefore kept as two limbs [hi, lo] with value             *)
(* hi * 2^LimbBits + lo and 0 <= lo < 2^LimbBits.  Shifts and ors are      *)
(* computed on the limbs with carries, so a field that is too wide for its *)
(* place does spill into its neighbour, as it does in the Go code.         *)
(* Timestamps of the model stay far below 2^41, the width at which the     *)
(* left shift of line 113 would drop bits.                                 *)
(*                                                                         *)
(* The clock is the value time.Since(Epoch) has in milliseconds.  It is    *)
(* the environment's: every action that reads it takes the reading c as an *)
(* input, which may be ahead of the last reading, equal to it or behind it.*)
(***************************************************************************)
EXTENDS Integers, Sequences, FiniteSets, TLC

(***************************************************************************)
(* Program constants (src/flake.go:26-37).                                 *)
(***************************************************************************)
HostBits == 10
SequenceBits == 13
MaxWorkerId == (2 ^ HostBits) - 1
MaxSequence == (2 ^ SequenceBits) - 1

(***************************************************************************)
(* Bounds of the model.                                                    *)
(***************************************************************************)
\* clock readings are 0..MaxClock (and the readings of FrozenClocks)
MaxClock == 2
\* NextId calls that are explored step by step, interleaved
MaxCalls == 2
\* NextId calls explored step by step by a single thread
MaxSeqCalls == 3
\* threads sharing one generator
NumThreads == 2

Threads == 1 .. NumThreads
Gens == {1, 2}
ClockVals == 0 .. MaxClock
\* length of a run of back-to-back calls: it ends two calls short of the
\* last sequence number of the millisecond
BurstLen == MaxSequence - 1
\* ids remembered in the history window
MaxHist == MaxCalls + 2

(***************************************************************************)
(* uint64 as two limbs.                                                    *)
(***************************************************************************)
LimbBits == 23
LimbBase == 2 ^ LimbBits

\* uint64(n) for a natural n below 2^31
U64(n) == [hi |-> n \div LimbBase, lo |-> n % LimbBase]

\* x << k on uint64, for a natural x below 2^31
ShiftLeft(x, k) ==
    IF k >= LimbBits
    THEN [hi |-> x * (2 ^ (k - LimbBits)), lo |-> 0]
    ELSE [hi |-> x \div (2 ^ (LimbBits - k)),
          lo |-> (x % (2 ^ (LimbBits - k))) * (2 ^ k)]

RECURSIVE BitOr(_, _)
\* a | b on naturals, bit by bit
BitOr(a, b) ==
    IF a = 0 THEN b
    ELSE IF b = 0 THEN a
    ELSE (IF a % 2 = 1 \/ b % 2 = 1 THEN 1 ELSE 0) + 2 * BitOr(a \div 2, b \div 2)

\* a | b on uint64
Or64(a, b) == [hi |-> BitOr(a.hi, b.hi), lo |-> BitOr(a.lo, b.lo)]

\* a < b on uint64
Less64(a, b) == a.hi < b.hi \/ (a.hi = b.hi /\ a.lo < b.lo)

\* the three bit fields of an Id: bits 63-23, bits 22-13, bits 12-0
TimestampField(id) == id.hi
WorkerField(id) == id.lo \div (2 ^ SequenceBits)
SequenceField(id) == id.lo % (2 ^ SequenceBits)

\* no Id: below every Id
NoId == [hi |-> -1, lo |-> 0]

(***************************************************************************)
(* Pure helpers of the constructors.                                       *)
(***************************************************************************)
\* net.IP.To4: the 4-byte form of an address, or nil (the empty sequence)
To4(ip) ==
    IF Len(ip) = 4 THEN ip
    ELSE IF /\ Len(ip) = 16
            /\ \A i \in 1 .. 10 : ip[i] = 0
            /\ ip[11] = 255
            /\ ip[12] = 255
         THEN SubSeq(ip, 13, 16)
         ELSE <<>>

RECURSIVE BigEndian(_)
\* binary.BigEndian.Uint32 / Uint64: the bytes as one number, first byte
\* most significant
BigEndian(b) ==
    IF Len(b) = 0 THEN 0
    ELSE BigEndian(SubSeq(b, 1, Len(b) - 1)) * 256 + b[Len(b)]

\* getHostId: inputs are the outcome of os.Hostname (hostErr), the outcome of
\* net.LookupIP (lookupErr) and the addresses it returned.  addrs[0] of an
\* empty slice is an index-out-of-range panic.
getHostId(hostErr, lookupErr, addrs) ==
    IF hostErr THEN [val |-> 0, out |-> "err"]
    ELSE IF lookupErr THEN [val |-> 0, out |-> "err"]
    ELSE IF Len(addrs) = 0 THEN [val |-> 0, out |-> "panic"]
    ELSE LET a == To4(addrs[1])
         IN  IF Len(a) < 4
             THEN [val |-> 0, out |-> "err"]
             ELSE [val |-> BigEndian(a), out |-> "nil"]

\* getRandomId that does not look at the error of rand.Read
getRandomIdSwallow(readErr, b) == [val |-> BigEndian(b), out |-> "nil"]

\* getRandomId: inputs are the outcome of rand.Read (readErr) and the 8
\* bytes it filled in
getRandomId(readErr, b) ==
    IF readErr THEN [val |-> 0, out |-> "err"]
    ELSE [val |-> BigEndian(b), out |-> "nil"]

(***************************************************************************)
(* State.                                                                  *)
(*   clock     milliseconds since Epoch the system clock read when it was  *)
(*             last read                                                   *)
(*   f         the generators that exist: g \in DOMAIN f iff a constructor *)
(*             returned generator g; f[g] holds its fields, mu being the   *)
(*             thread that holds the mutex (0: unlocked)                   *)
(*   ctor      per generator, the constructor call that was made for it:   *)
(*             which one, its inputs and its outcome (history)             *)
(*   pc        per thread, its position in NextId                          *)
(*   tgt       per thread, the generator it is calling NextId on           *)
(*   now, sequence   per thread, the locals of NextId                      *)
(*   call      per thread, history of the call in progress                 *)
(*   returned  history: the last MaxHist calls that returned, in order of  *)
(*             return                                                      *)
(*   maxRet    history: per generator, the greatest Id returned so far     *)
(*   calls     history: per generator, NextId calls invoked so far         *)
(*   budget    history: NextId calls invoked step by step so far           *)
(*   maxRead   history: per generator, the greatest clock value read so    *)
(*             far by its constructor or by a NextId call on it            *)
(*   text      an Id and the string Id.String gave for it                  *)
(***************************************************************************)
VARIABLES clock, f, ctor, pc, tgt, now, sequence, call, returned, maxRet,
          calls, budget, maxRead, text

vars == <<clock, f, ctor, pc, tgt, now, sequence, call, returned, maxRet,
          calls, budget, maxRead, text>>

gen == <<f, ctor>>
threads == <<pc, tgt, now, sequence, call>>
history == <<returned, maxRet, calls, budget>>

\* getTimestamp: milliseconds since Epoch, the clock reading c
getTimestamp(c) == c

NoCtor == [via |-> "none", out |-> "none", arg |-> -1, at |-> -1,
           hostErr |-> FALSE, lookupErr |-> FALSE, addrs |-> <<>>,
           readErr |-> FALSE, reads |-> 0]

NoCall == [n |-> 0, read |-> -1, floor |-> NoId, time |-> -1, seq |-> -1,
           k |-> 0, pt |-> -1, ps |-> -1]

Max64(a, b) == IF Less64(a, b) THEN b ELSE a

Max(a, b) == IF a < b THEN b ELSE a

\* nothing rendered
NoText == [step |-> "none", id |-> NoId, str |-> <<>>]

\* the history window: the last MaxHist entries
Push(h, e) == IF Len(h) < MaxHist THEN Append(h, e) ELSE Append(Tail(h), e)

(***************************************************************************)
(* Construction.                                                           *)
(***************************************************************************)
\* New that keeps the worker id as passed
NewUnreduced(workerId, c) ==
    [sequence |-> 0, prevTime |-> getTimestamp(c), workerId |-> workerId,
     mu |-> 0]

\* New: the Flake it returns, the clock reading c
New(workerId, c) ==
    [sequence |-> 0,
     prevTime |-> getTimestamp(c),
     workerId |-> workerId % MaxWorkerId,
     mu |-> 0]

\* a caller constructs generator g with an explicit worker id
ExplicitId(g, w, c) ==
    /\ ctor[g].via = "none"
    /\ f' = f @@ (g :> New(w, c))
    /\ ctor' = [ctor EXCEPT ![g] =
                   [NoCtor EXCEPT !.via = "New", !.out = "nil", !.arg = w,
                                  !.at = c]]
    /\ clock' = c
    /\ maxRead' = [maxRead EXCEPT ![g] = getTimestamp(c)]
    /\ UNCHANGED <<text, threads, history>>

\* WithHostId: a generator only when getHostId reports no error
WithHostId(g, hostErr, lookupErr, addrs, c) ==
    LET r == getHostId(hostErr, lookupErr, addrs)
    IN  /\ ctor[g].via = "none"
        /\ f' = IF r.out = "nil" THEN f @@ (g :> New(r.val, c)) ELSE f
        /\ ctor' = [ctor EXCEPT ![g] =
                       [NoCtor EXCEPT !.via = "WithHostId", !.out = r.out,
                                      !.arg = IF r.out = "nil" THEN r.val ELSE -1,
                                      !.at = IF r.out = "nil" THEN c ELSE -1,
                                      !.hostErr = hostErr,
                                      !.lookupErr = lookupErr,
                                      !.addrs = addrs]]
        /\ clock' = IF r.out = "nil" THEN c ELSE clock
        /\ maxRead' = IF r.out = "nil"
                      THEN [maxRead EXCEPT ![g] = getTimestamp(c)]
                      ELSE maxRead
        /\ UNCHANGED <<text, threads, history>>

\* WithRandomId: a generator only when getRandomId reports no error;
\* rand.Read is called once
WithRandomId(g, readErr, b, c) ==
    LET r == getRandomId(readErr, b)
    IN  /\ ctor[g].via = "none"
        /\ f' = IF r.out = "nil" THEN f @@ (g :> New(r.val, c)) ELSE f
        /\ ctor' = [ctor EXCEPT ![g] =
                       [NoCtor EXCEPT !.via = "WithRandomId", !.out = r.out,
                                      !.arg = IF r.out = "nil" THEN r.val ELSE -1,
                                      !.at = IF r.out = "nil" THEN c ELSE -1,
                                      !.readErr = readErr,
                                      !.reads = 1]]
        /\ clock' = IF r.out = "nil" THEN c ELSE clock
        /\ maxRead' = IF r.out = "nil"
                      THEN [maxRead EXCEPT ![g] = getTimestamp(c)]
                      ELSE maxRead
        /\ UNCHANGED <<text, threads, history>>

(***************************************************************************)
(* NextId.                                                                 *)
(***************************************************************************)
\* NextState that wraps the sequence without bumping the timestamp
NextStateNoBump(prevTime, seq, nw) ==
    LET same == nw <= prevTime
        n1 == IF same THEN prevTime ELSE nw
        s1 == IF same THEN seq + 1 ELSE 0
    IN  IF s1 > MaxSequence
        THEN [now |-> n1, sequence |-> 0]
        ELSE [now |-> n1, sequence |-> s1]

\* NextState that keeps the clock reading when it is behind prevTime
NextStateTrustClock(prevTime, seq, nw) ==
    LET n1 == nw
        s1 == IF nw <= prevTime THEN seq + 1 ELSE 0
    IN  IF s1 > MaxSequence
        THEN [now |-> n1 + 1, sequence |-> 0]
        ELSE [now |-> n1, sequence |-> s1]

\* NextState that keeps counting when the clock has advanced
NextStateNoReset(prevTime, seq, nw) ==
    LET same == nw <= prevTime
        n1 == IF same THEN prevTime ELSE nw
        s1 == IF same THEN seq + 1 ELSE seq
    IN  IF s1 > MaxSequence
        THEN [now |-> n1 + 1, sequence |-> 0]
        ELSE [now |-> n1, sequence |-> s1]

\* NextState that starts the sequence again when the clock is behind prevTime
NextStateBackwardReset(prevTime, seq, nw) ==
    LET same == nw = prevTime
        n1 == IF nw <= prevTime THEN prevTime ELSE nw
        s1 == IF same THEN seq + 1 ELSE 0
    IN  IF s1 > MaxSequence
        THEN [now |-> n1 + 1, sequence |-> 0]
        ELSE [now |-> n1, sequence |-> s1]

\* NextState that rolls over one sequence number late
NextStateLateRollover(prevTime, seq, nw) ==
    LET same == nw <= prevTime
        n1 == IF same THEN prevTime ELSE nw
        s1 == IF same THEN seq + 1 ELSE 0
    IN  IF s1 > MaxSequence + 1
        THEN [now |-> n1 + 1, sequence |-> 0]
        ELSE [now |-> n1, sequence |-> s1]

\* NextState that rolls over one sequence number early
NextStateOffByOne(prevTime, seq, nw) ==
    LET same == nw <= prevTime
        n1 == IF same THEN prevTime ELSE nw
        s1 == IF same THEN seq + 1 ELSE 0
    IN  IF s1 >= MaxSequence
        THEN [now |-> n1 + 1, sequence |-> 0]
        ELSE [now |-> n1, sequence |-> s1]

\* lines 96-107: the timestamp and sequence a call arrives at, from
\* f.prevTime, the sequence it loaded and its clock reading
NextState(prevTime, seq, nw) ==
    LET same == nw <= prevTime
        n1 == IF same THEN prevTime ELSE nw
        s1 == IF same THEN seq + 1 ELSE 0
    IN  IF s1 > MaxSequence
        THEN [now |-> n1 + 1, sequence |-> 0]
        ELSE [now |-> n1, sequence |-> s1]

\* Compose that shifts the worker id by HostBits
ComposeHostShift(nw, workerId, sq) ==
    Or64(Or64(ShiftLeft(nw, HostBits + SequenceBits),
              ShiftLeft(workerId, HostBits)),
         U64(sq))

\* lines 113-115: timestamp | workerId | sequence
Compose(nw, workerId, sq) ==
    Or64(Or64(ShiftLeft(nw, HostBits + SequenceBits),
              ShiftLeft(workerId, SequenceBits)),
         U64(sq))

\* line 89: thread t enters NextId on generator g and reads the clock,
\* which reads c
NextIdRead(t, g, c) ==
    /\ pc[t] = "idle"
    /\ g \in DOMAIN f
    /\ pc' = [pc EXCEPT ![t] = "lock"]
    /\ tgt' = [tgt EXCEPT ![t] = g]
    /\ now' = [now EXCEPT ![t] = getTimestamp(c)]
    /\ call' = [call EXCEPT ![t] =
                   [NoCall EXCEPT !.n = calls[g] + 1, !.read = c,
                                  !.floor = maxRet[g]]]
    /\ calls' = [calls EXCEPT ![g] = @ + 1]
    /\ budget' = budget + 1
    /\ clock' = c
    /\ maxRead' = [maxRead EXCEPT ![g] = Max(@, getTimestamp(c))]
    /\ UNCHANGED <<text, gen, sequence, returned, maxRet>>

\* the calls that have passed f.mu.Lock() on generator g: those that entered
\* NextId less those still waiting for the mutex
Acquired(g) ==
    calls[g] - Cardinality({u \in Threads : pc[u] = "lock" /\ tgt[u] = g})

\* Lock that does not wait for the mutex
NextIdLockNoWait(t) ==
    /\ pc[t] = "lock"
    /\ f' = [f EXCEPT ![tgt[t]].mu = t]
    /\ call' = [call EXCEPT ![t].k = Acquired(tgt[t]) + 1]
    /\ pc' = [pc EXCEPT ![t] = "load"]
    /\ UNCHANGED <<text, maxRead, clock, ctor, tgt, now, sequence, history>>

\* line 91: f.mu.Lock()
NextIdLock(t) ==
    /\ pc[t] = "lock"
    /\ f[tgt[t]].mu = 0
    /\ f' = [f EXCEPT ![tgt[t]].mu = t]
    /\ call' = [call EXCEPT ![t].k = Acquired(tgt[t]) + 1]
    /\ pc' = [pc EXCEPT ![t] = "load"]
    /\ UNCHANGED <<text, maxRead, clock, ctor, tgt, now, sequence, history>>

\* line 92: sequence := f.sequence
NextIdLoad(t) ==
    /\ pc[t] = "load"
    /\ sequence' = [sequence EXCEPT ![t] = f[tgt[t]].sequence]
    /\ call' = [call EXCEPT ![t].ps = f[tgt[t]].sequence]
    /\ pc' = [pc EXCEPT ![t] = "advance"]
    /\ UNCHANGED <<text, maxRead, clock, gen, tgt, now, history>>

\* lines 96-107: compare the clock reading with f.prevTime and advance the
\* locals now and sequence
NextIdAdvance(t) ==
    LET nx == NextState(f[tgt[t]].prevTime, sequence[t], now[t])
    IN  /\ pc[t] = "advance"
        /\ now' = [now EXCEPT ![t] = nx.now]
        /\ sequence' = [sequence EXCEPT ![t] = nx.sequence]
        /\ call' = [call EXCEPT ![t].pt = f[tgt[t]].prevTime]
        /\ pc' = [pc EXCEPT ![t] = "store"]
        /\ UNCHANGED <<text, maxRead, clock, gen, tgt, history>>

\* Store that writes a whole Flake value, its worker id zero
NextIdStoreWhole(t) ==
    /\ pc[t] = "store"
    /\ f' = [f EXCEPT ![tgt[t]] = [sequence |-> sequence[t],
                                   prevTime |-> now[t],
                                   workerId |-> 0,
                                   mu |-> @.mu]]
    /\ call' = [call EXCEPT ![t].time = now[t], ![t].seq = sequence[t]]
    /\ pc' = [pc EXCEPT ![t] = "unlock"]
    /\ UNCHANGED <<text, maxRead, clock, ctor, tgt, now, sequence, history>>

\* lines 109-110: f.prevTime = now; f.sequence = sequence
NextIdStore(t) ==
    /\ pc[t] = "store"
    /\ f' = [f EXCEPT ![tgt[t]].prevTime = now[t],
                      ![tgt[t]].sequence = sequence[t]]
    /\ call' = [call EXCEPT ![t].time = now[t], ![t].seq = sequence[t]]
    /\ pc' = [pc EXCEPT ![t] = "unlock"]
    /\ UNCHANGED <<text, maxRead, clock, ctor, tgt, now, sequence, history>>

\* Unlock that leaves the mutex held
NextIdUnlockKeep(t) ==
    /\ pc[t] = "unlock"
    /\ pc' = [pc EXCEPT ![t] = "compose"]
    /\ UNCHANGED <<text, maxRead, clock, gen, tgt, now, sequence, call, history>>

\* line 111: f.mu.Unlock()
NextIdUnlock(t) ==
    /\ pc[t] = "unlock"
    /\ f' = [f EXCEPT ![tgt[t]].mu = 0]
    /\ pc' = [pc EXCEPT ![t] = "compose"]
    /\ UNCHANGED <<text, maxRead, clock, ctor, tgt, now, sequence, call, history>>

\* lines 113-115: compose the Id and return it
NextIdReturn(t) ==
    LET g == tgt[t]
        id == Compose(now[t], f[g].workerId, sequence[t])
    IN  /\ pc[t] = "compose"
        /\ returned' = Push(returned,
                            [id |-> id, g |-> g, n |-> call[t].n,
                             read |-> call[t].read, floor |-> call[t].floor,
                             time |-> call[t].time, seq |-> call[t].seq,
                             k |-> call[t].k, pt |-> call[t].pt,
                             ps |-> call[t].ps])
        /\ maxRet' = [maxRet EXCEPT ![g] = Max64(@, id)]
        /\ pc' = [pc EXCEPT ![t] = "idle"]
        /\ tgt' = [tgt EXCEPT ![t] = 0]
        /\ now' = [now EXCEPT ![t] = 0]
        /\ sequence' = [sequence EXCEPT ![t] = 0]
        /\ call' = [call EXCEPT ![t] = NoCall]
        /\ UNCHANGED <<text, maxRead, clock, gen, calls, budget>>

(***************************************************************************)
(* A run of back-to-back calls: the loop of examples/example.go, one       *)
(* thread calling NextId BurstLen times in a row on a generator nobody has *)
(* used yet, while no other thread is inside NextId and every call reads   *)
(* the clock at c.  Each call is the steps of NextId above taken in order, *)
(* computed with the same NextState and Compose.                           *)
(***************************************************************************)
\* one whole NextId call on generator g, reading the clock at c, on the run's state
CallOnce(st, g, c) ==
    LET nx == NextState(st.fl.prevTime, st.fl.sequence, getTimestamp(c))
        id == Compose(nx.now, st.fl.workerId, nx.sequence)
    IN  [fl |-> [st.fl EXCEPT !.prevTime = nx.now, !.sequence = nx.sequence],
         hist |-> Push(st.hist,
                       [id |-> id, g |-> g, n |-> st.calls + 1,
                        read |-> c, floor |-> st.maxRet,
                        time |-> nx.now, seq |-> nx.sequence,
                        k |-> st.calls + 1, pt |-> st.fl.prevTime,
                        ps |-> st.fl.sequence]),
         maxRet |-> Max64(st.maxRet, id),
         calls |-> st.calls + 1]

RECURSIVE Repeat(_, _, _, _)
\* k calls in a row: the first half of them, then the rest
Repeat(st, k, g, c) ==
    IF k = 0 THEN st
    ELSE IF k = 1 THEN CallOnce(st, g, c)
    ELSE CHOOSE r \in {Repeat(half, k - (k \div 2), g, c) :
                          half \in {Repeat(st, k \div 2, g, c)}} : TRUE

Burst(g, c) ==
    /\ \A u \in Threads : pc[u] = "idle"
    /\ g \in DOMAIN f
    /\ calls[g] = 0
    /\ \E st \in {Repeat([fl |-> f[g], hist |-> returned, maxRet |-> maxRet[g],
                          calls |-> calls[g]], BurstLen, g, c)} :
           /\ f' = [f EXCEPT ![g] = st.fl]
           /\ returned' = st.hist
           /\ maxRet' = [maxRet EXCEPT ![g] = st.maxRet]
           /\ calls' = [calls EXCEPT ![g] = st.calls]
    /\ clock' = c
    /\ maxRead' = [maxRead EXCEPT ![g] = Max(@, getTimestamp(c))]
    /\ UNCHANGED <<text, ctor, threads, budget>>

(***************************************************************************)
(* Id.String: strconv.FormatUint(uint64(id), 36).  A string is the         *)
(* sequence of its characters.  FormatUint divides by the base until the   *)
(* quotient is below it and writes the remainders from the right.          *)
(***************************************************************************)
Digits == <<"0", "1", "2", "3", "4", "5", "6", "7", "8", "9",
            "a", "b", "c", "d", "e", "f", "g", "h", "i", "j",
            "k", "l", "m", "n", "o", "p", "q", "r", "s", "t",
            "u", "v", "w", "x", "y", "z">>

\* u / base and u - q*base
DivMod64(u, base) ==
    LET r == (u.hi % base) * LimbBase + u.lo
    IN  [q |-> [hi |-> u.hi \div base, lo |-> r \div base], m |-> r % base]

RECURSIVE FormatUint(_, _)
FormatUint(u, base) ==
    IF u.hi > 0 \/ u.lo >= base
    THEN LET d == DivMod64(u, base)
         IN  Append(FormatUint(d.q, base), Digits[d.m + 1])
    ELSE <<Digits[u.lo + 1]>>

\* String in base 10
StringDecimal(id) == FormatUint(id, 10)

\* lines 43-45: Id.String
String(id) == FormatUint(id, 36)

\* a caller renders the Id it holds
CallString ==
    /\ text.step = "id"
    /\ text' = [text EXCEPT !.step = "string", !.str = String(text.id)]
    /\ UNCHANGED <<clock, gen, threads, history, maxRead>>

(***************************************************************************)
(* Specifications.                                                         *)
(***************************************************************************)
\* nothing constructed, no call made
Start ==
    /\ f = <<>>
    /\ ctor = [g \in Gens |-> NoCtor]
    /\ pc = [t \in Threads |-> "idle"]
    /\ tgt = [t \in Threads |-> 0]
    /\ now = [t \in Threads |-> 0]
    /\ sequence = [t \in Threads |-> 0]
    /\ call = [t \in Threads |-> NoCall]
    /\ returned = <<>>
    /\ maxRet = [g \in Gens |-> NoId]
    /\ calls = [g \in Gens |-> 0]
    /\ budget = 0
    /\ maxRead = [g \in Gens |-> -1]

Init == clock = 0 /\ text = NoText /\ Start

\* worker ids passed to New
SharedWorkers == {3}
Workers == {0, 3, 1022, 1023, 1034}
FrozenWorkers == {3, 1022}
FleetWorkers == {0, 3, 1023}

\* clock readings of the frozen-clock runs
FrozenClocks == {1, 5000}

\* addresses net.LookupIP may return: IPv4 in 4 bytes, IPv4 in 16 bytes
\* (::ffff:a.b.c.d), IPv6, and an address of a length that is neither
IPv4 == <<10, 0, 4, 10>>
IPv4In6 == <<0, 0, 0, 0, 0, 0, 0, 0, 0, 0, 255, 255, 10, 0, 3, 255>>
IPv6 == <<32, 1, 13, 184, 0, 0, 0, 0, 0, 0, 0, 0, 0, 0, 0, 1>>
Short == <<10, 0>>
AddrLists == {<<>>, <<IPv4>>, <<IPv4In6>>, <<IPv6>>, <<Short>>,
              <<IPv4, IPv6>>, <<IPv6, IPv4>>}

\* the outcomes of os.Hostname and net.LookupIP: when os.Hostname fails the
\* lookup is not made, when the lookup fails it returns no addresses
HostInputs ==
    {<<TRUE, FALSE, <<>>>>, <<FALSE, TRUE, <<>>>>}
    \cup {<<FALSE, FALSE, a>> : a \in AddrLists}

\* the 8 bytes rand.Read may fill in
RandomBytes == {<<0, 0, 0, 0, 0, 0, 0, 0>>,
                <<0, 0, 0, 0, 0, 0, 3, 255>>,
                <<0, 0, 0, 0, 0, 0, 4, 10>>,
                <<0, 0, 0, 0, 127, 255, 255, 255>>}

\* Spec: one generator shared by all threads
Next ==
    \/ \E w \in SharedWorkers, c \in ClockVals : ExplicitId(1, w, c)
    \/ \E c \in ClockVals : Burst(1, c)
    \/ \E t \in Threads :
          \/ \E c \in ClockVals : budget < MaxCalls /\ NextIdRead(t, 1, c)
          \/ NextIdLock(t)
          \/ NextIdLoad(t)
          \/ NextIdAdvance(t)
          \/ NextIdStore(t)
          \/ NextIdUnlock(t)
          \/ NextIdReturn(t)

Spec == Init /\ [][Next]_vars

\* the steps of thread t inside NextId that wait for nothing
Running(t) ==
    \/ NextIdLoad(t)
    \/ NextIdAdvance(t)
    \/ NextIdStore(t)
    \/ NextIdUnlock(t)
    \/ NextIdReturn(t)

\* SpecFair: one generator shared by all threads, with clock readings ahead
\* of, at and behind its timestamp, under the scheduling Go gives its
\* goroutines: a thread
\* that can take a step is not left behind forever, and a thread waiting in
\* f.mu.Lock() gets the mutex if the mutex is free again and again
\* (sync.Mutex hands the mutex to a waiter that would starve)
FairClocks == {0, 1}

NextFair ==
    \/ \E w \in SharedWorkers : ExplicitId(1, w, 0)
    \/ Burst(1, clock)
    \/ \E t \in Threads :
          \/ \E c \in FairClocks : budget < MaxCalls /\ NextIdRead(t, 1, c)
          \/ NextIdLock(t)
          \/ Running(t)

SpecFair ==
    /\ Init
    /\ [][NextFair]_vars
    /\ \A t \in Threads : WF_vars(Running(t)) /\ SF_vars(NextIdLock(t))

\* SpecSeq: one generator, made by any of the three constructors, used by
\* one thread
NextSeq ==
    \/ \E w \in Workers, c \in ClockVals : ExplicitId(1, w, c)
    \/ \E in \in HostInputs, c \in ClockVals :
          WithHostId(1, in[1], in[2], in[3], c)
    \/ \E readErr \in BOOLEAN, b \in RandomBytes, c \in ClockVals :
          WithRandomId(1, readErr, b, c)
    \/ \E c \in ClockVals : Burst(1, c)
    \/ \E c \in ClockVals : budget < MaxSeqCalls /\ NextIdRead(1, 1, c)
    \/ NextIdLock(1)
    \/ NextIdLoad(1)
    \/ NextIdAdvance(1)
    \/ NextIdStore(1)
    \/ NextIdUnlock(1)
    \/ NextIdReturn(1)

SpecSeq == Init /\ [][NextSeq]_vars

\* SpecFrozen: the clock reads the same millisecond at construction and at
\* every call; one thread calls NextId until the sequence has rolled over
NextFrozen ==
    \/ \E w \in FrozenWorkers, c \in FrozenClocks : ExplicitId(1, w, c)
    \/ calls[1] < MaxSequence + 2 /\ NextIdRead(1, 1, clock)
    \/ NextIdLock(1)
    \/ NextIdLoad(1)
    \/ NextIdAdvance(1)
    \/ NextIdStore(1)
    \/ NextIdUnlock(1)
    \/ NextIdReturn(1)

SpecFrozen == Init /\ [][NextFrozen]_vars

\* SpecFleet: two generators, thread g using generator g
NextFleet ==
    \/ \E g \in Gens, w \in FleetWorkers, c \in ClockVals : ExplicitId(g, w, c)
    \/ \E g \in Gens :
          \/ \E c \in ClockVals : budget < MaxCalls /\ NextIdRead(g, g, c)
          \/ NextIdLock(g)
          \/ NextIdLoad(g)
          \/ NextIdAdvance(g)
          \/ NextIdStore(g)
          \/ NextIdUnlock(g)
          \/ NextIdReturn(g)

SpecFleet == Init /\ [][NextFleet]_vars

\* SpecString: an Id is rendered.  The Ids are composed of
\* the timestamps, worker ids and sequences below; 0 and 36 are among them.
StringTimes == {0, 1, 35, 36, 5000, (2 ^ 25) - 1}
StringWorkers == {0, 3, 1022}
StringSequences == {0, 1, 35, 36, MaxSequence}

StringIds ==
    {Compose(t, w, sq) :
        t \in StringTimes, w \in StringWorkers, sq \in StringSequences}

InitString ==
    /\ clock = 0
    /\ Start
    /\ text \in {[NoText EXCEPT !.step = "id", !.id = v] : v \in StringIds}

NextString == CallString

SpecString == InitString /\ [][NextString]_vars

(***************************************************************************)
(* Claims.                                                                 *)
(***************************************************************************)
Returned == {returned[i] : i \in 1 .. Len(returned)}

\* the call drew the first sequence number of a millisecond the sequence
\* rolled over into: its timestamp is ahead of the clock it read
RolledOver(e) == e.seq = 0 /\ e.time > e.read /\ e.n > 1

\* C1: all identifiers one generator has returned, to threads calling NextId
\* concurrently under any clock readings, are pairwise distinct.
C1_AllDistinct ==
    \A i, j \in 1 .. Len(returned) :
        (i # j /\ returned[i].g = returned[j].g)
            => returned[i].id # returned[j].id

\* C1 witness: two calls that overlapped (they returned in the opposite
\* order of their invocation), one of them across a sequence rollover.
C1_Witness ==
    /\ \E i, j \in 1 .. Len(returned) : i < j /\ returned[i].n > returned[j].n
    /\ \E e \in Returned : RolledOver(e) /\ e.n > BurstLen

\* C2: with one thread calling NextId, each identifier returned is strictly
\* greater than the one returned by the call before it, whether the clock
\* read more, the same or less than before.
C2_SequentialIncreasing ==
    \A i \in 1 .. Len(returned) - 1 :
        Less64(returned[i].id, returned[i + 1].id)

\* C2 witness: consecutive calls of which one read a later clock than the
\* generator's timestamp, one the same and one an earlier one.
C2_Witness ==
    /\ \E i \in 1 .. Len(returned) - 1 : returned[i + 1].read > returned[i].time
    /\ \E i \in 1 .. Len(returned) - 1 : returned[i + 1].read = returned[i].time
    /\ \E i \in 1 .. Len(returned) - 1 : returned[i + 1].read < returned[i].time

\* C3: a call invoked after other calls have returned gets an identifier
\* strictly greater than all of theirs (floor is the greatest identifier that
\* had been returned when the call was invoked).
C3_NonOverlappingOrdered ==
    \A e \in Returned : Less64(e.floor, e.id)

\* C3 witness: a call invoked after another had returned, whose clock
\* reading was behind that identifier's timestamp, while calls overlapped.
C3_Witness ==
    /\ \E e \in Returned :
          e.floor # NoId /\ e.read < TimestampField(e.floor)
    /\ \E i, j \in 1 .. Len(returned) : i < j /\ returned[i].n > returned[j].n

\* C4: a generator made by New(w) has worker id w mod 1024, and so have bits
\* 22-13 of every identifier it returns.
C4_WorkerIdMod1024 ==
    /\ \A g \in DOMAIN f :
          ctor[g].via = "New" => f[g].workerId = ctor[g].arg % (2 ^ HostBits)
    /\ \A e \in Returned :
          ctor[e.g].via = "New"
              => WorkerField(e.id) = ctor[e.g].arg % (2 ^ HostBits)

\* C5: two generators made with distinct worker ids in 0..1023 never return
\* the same identifier.
C5_FleetDistinct ==
    \A d, e \in Returned :
        (/\ d.g # e.g
         /\ ctor[d.g].arg # ctor[e.g].arg
         /\ ctor[d.g].arg \in 0 .. MaxWorkerId
         /\ ctor[e.g].arg \in 0 .. MaxWorkerId)
            => d.id # e.id

\* C6 as claimed: with the clock frozen at T since construction, calls 1 to
\* 8192 carry timestamp T and call 8193 carries timestamp T+1, sequence 0.
C6_AsClaimed ==
    \A e \in Returned :
        /\ e.n <= MaxSequence + 1 => TimestampField(e.id) = ctor[e.g].at
        /\ e.n = MaxSequence + 2 =>
              /\ TimestampField(e.id) = ctor[e.g].at + 1
              /\ SequenceField(e.id) = 0

\* C6 amended: with the clock frozen at T since construction, calls 1 to
\* 8191 carry timestamp T (call n with sequence n), call 8192 carries
\* timestamp T+1 and sequence 0, and call 8193 timestamp T+1, sequence 1.
C6_Rollover ==
    \A e \in Returned :
        /\ e.n <= MaxSequence =>
              /\ TimestampField(e.id) = ctor[e.g].at
              /\ SequenceField(e.id) = e.n
        /\ e.n > MaxSequence =>
              /\ TimestampField(e.id) = ctor[e.g].at + 1
              /\ SequenceField(e.id) = e.n - (MaxSequence + 1)

\* C6 witness: call 8193 has returned.
C6_Witness == \E e \in Returned : e.n = MaxSequence + 2

\* C7 as claimed: with the clock frozen at T since construction and worker
\* id w < 1023, the first identifier is (T << 23) | (w << 13) | 0.
C7_AsClaimed ==
    \A e \in Returned :
        (e.n = 1 /\ ctor[e.g].arg < MaxWorkerId)
            => e.id = [hi |-> ctor[e.g].at,
                       lo |-> ctor[e.g].arg * (2 ^ SequenceBits)]

\* C7 amended: with the clock frozen at T since construction and worker id
\* w < 1023, the first identifier is (T << 23) | (w << 13) | 1; for T = 5000
\* and w = 3 it is (5000 << 23) | (3 << 13) | 1.
C7_FirstId ==
    \A e \in Returned :
        /\ (e.n = 1 /\ ctor[e.g].arg < MaxWorkerId)
              => e.id = [hi |-> ctor[e.g].at,
                         lo |-> ctor[e.g].arg * (2 ^ SequenceBits) + 1]
        /\ (e.n = 1 /\ ctor[e.g].arg = 3 /\ ctor[e.g].at = 5000)
              => e.id = [hi |-> 5000, lo |-> 24577]

\* C7 witness: the first call on the generator made with worker id 3 at
\* clock 5000 has returned.
C7_Witness ==
    \E e \in Returned : e.n = 1 /\ ctor[e.g].arg = 3 /\ ctor[e.g].at = 5000

\* C8: bits 63-23 of every identifier returned are the timestamp its call
\* stored in prevTime, bits 22-13 the generator's worker id and bits 12-0
\* the sequence its call stored.
C8_FieldsLossless ==
    \A e \in Returned :
        /\ TimestampField(e.id) = e.time
        /\ WorkerField(e.id) = f[e.g].workerId
        /\ SequenceField(e.id) = e.seq

\* C8 witness: an identifier with the greatest sequence, a worker id of ten
\* significant bits and a timestamp that is not 0.
C8_Witness ==
    \E e \in Returned :
        e.seq = MaxSequence /\ f[e.g].workerId >= 2 ^ (HostBits - 1) /\ e.time > 0

\* the three failure cases of host-derived construction
HostFailure(k) ==
    \/ k.hostErr
    \/ k.lookupErr
    \/ Len(k.addrs) = 0
    \/ Len(To4(k.addrs[1])) < 4

\* C9: WithHostId ends with an error and no generator when the hostname
\* cannot be resolved, when the lookup returns no address and when the first
\* address is not IPv4.
C9_HostFailuresAreErrors ==
    \A g \in Gens :
        (ctor[g].via = "WithHostId" /\ HostFailure(ctor[g]))
            => (ctor[g].out = "err" /\ g \notin DOMAIN f)

\* C10: WithRandomId ends with an error and no generator, after reading the
\* random source once, when the source fails; a constructor that reports an
\* error returns no generator, and one that reports none returns a
\* generator with sequence 0, prevTime the clock reading, the mutex free
\* and a worker id within the ten bits of its field.
C10_NoPartialGenerator ==
    \A g \in Gens :
        /\ (ctor[g].via = "WithRandomId" /\ ctor[g].readErr)
              => (ctor[g].out = "err" /\ ctor[g].reads = 1)
        /\ ctor[g].out = "err" => g \notin DOMAIN f
        /\ ctor[g].out = "nil" => g \in DOMAIN f
        /\ (ctor[g].out = "nil" /\ calls[g] = 0) =>
              /\ f[g].sequence = 0
              /\ f[g].prevTime = ctor[g].at
              /\ f[g].mu = 0
              /\ f[g].workerId \in 0 .. MaxWorkerId

\* C10 witness: a WithRandomId call has failed on the random source.
C10_Witness ==
    \E g \in Gens :
        /\ ctor[g].via = "WithRandomId"
        /\ ctor[g].readErr
        /\ ctor[g].out = "err"
        /\ g \notin DOMAIN f

\* some thread holds the mutex of generator g
Held(g) == g \in DOMAIN f /\ f[g].mu # 0

\* C11: under fair scheduling every thread that has entered NextId returns
\* from it, whatever the generator's state and its clock reading, and a mutex
\* that is held is released.
C11_EveryCallReturns ==
    /\ \A t \in Threads : (pc[t] # "idle") ~> (pc[t] = "idle")
    /\ \A g \in Gens : Held(g) ~> ~Held(g)

\* C11 witness: a thread waits in f.mu.Lock() for the mutex another thread
\* holds, on a generator whose sequence is at its last value.
C11_Witness ==
    \E t, u \in Threads :
        /\ pc[t] = "lock"
        /\ f[tgt[t]].mu = u
        /\ u # t
        /\ f[tgt[t]].sequence = MaxSequence

\* parsing a string as an unsigned integer, strconv.ParseUint on a string of
\* digits: multiply by the base and add the next digit, left to right
\* the value of a digit character
DigitValue(ch) == CHOOSE d \in 0 .. 35 : Digits[d + 1] = ch

\* n*base + d
MulAdd64(n, base, d) ==
    LET l == n.lo * base + d
    IN  [hi |-> n.hi * base + (l \div LimbBase), lo |-> l % LimbBase]

RECURSIVE ParseUint(_, _)
ParseUint(str, base) ==
    IF str = <<>> THEN U64(0)
    ELSE MulAdd64(ParseUint(SubSeq(str, 1, Len(str) - 1), base), base,
                  DigitValue(str[Len(str)]))

\* C12: the string of an Id is made of the digits 0-9 and a-z only and parses
\* back, in base 36, to the Id; 0 renders as "0" and 36 as "10".
C12_StringRoundTrip ==
    text.step = "string" =>
          /\ Len(text.str) >= 1
          /\ \A i \in 1 .. Len(text.str) :
                 \E d \in 1 .. 36 : text.str[i] = Digits[d]
          /\ text.id = U64(0) => text.str = <<"0">>
          /\ text.id = U64(36) => text.str = <<"1", "0">>
          /\ ParseUint(text.str, 36) = text.id

\* C12 witness: an Id with a timestamp above 2^24, worker id 1022 and the
\* last sequence has been rendered, with letters among its digits
C12_Witness ==
    /\ text.step = "string"
    /\ TimestampField(text.id) > 2 ^ 24
    /\ WorkerField(text.id) = 1022
    /\ SequenceField(text.id) = MaxSequence
    /\ Len(text.str) >= 10
    /\ \E i \in 1 .. Len(text.str) : DigitValue(text.str[i]) >= 10

\* C13: a call that found the state (pt, ps) and read the clock at read
\* leaves (read, 0) when read > pt, (pt, ps + 1) when read <= pt and
\* ps < 8191, and (pt + 1, 0) when read <= pt and ps = 8191; the Id it
\* returns is that timestamp, the generator's worker id and that sequence,
\* and they are what the generator holds when the call has stored them.
C13_Transition ==
    /\ \A t \in Threads :
           pc[t] \in {"unlock", "compose"} =>
               /\ f[tgt[t]].prevTime = call[t].time
               /\ f[tgt[t]].sequence = call[t].seq
    /\ \A i \in 1 .. Len(returned) :
        LET e == returned[i]
        IN  /\ e.read > e.pt => e.time = e.read /\ e.seq = 0
            /\ e.read <= e.pt /\ e.ps < MaxSequence =>
                   e.time = e.pt /\ e.seq = e.ps + 1
            /\ e.read <= e.pt /\ e.ps = MaxSequence =>
                   e.time = e.pt + 1 /\ e.seq = 0
            /\ e.id = [hi |-> e.time,
                       lo |-> f[e.g].workerId * (2 ^ SequenceBits) + e.seq]

\* C13 witness: the three cases among the calls that returned, on a
\* generator whose worker id is not 0
C13_Witness ==
    /\ \E i \in 1 .. Len(returned) : returned[i].read > returned[i].pt
    /\ \E i \in 1 .. Len(returned) :
           /\ returned[i].read <= returned[i].pt
           /\ returned[i].ps < MaxSequence
    /\ \E i \in 1 .. Len(returned) :
           /\ returned[i].read <= returned[i].pt
           /\ returned[i].ps = MaxSequence
    /\ \E g \in DOMAIN f : f[g].workerId > 0

\* the threads between f.mu.Lock() and f.mu.Unlock() on generator g
InCritical(g) ==
    {t \in Threads : tgt[t] = g /\ pc[t] \in {"load", "advance", "store", "unlock"}}

\* C14: at most one call is between Lock and Unlock of a generator; the
\* first call to acquire the mutex found the state New left and the call that
\* acquired it next after another found the state that one left,
\* so no two calls found the same state; every Id is the one the sequential
\* transition gives from the state found, and the Ids increase strictly in
\* the order the mutex was acquired.
C14_Atomic ==
    /\ \A g \in DOMAIN f :
           /\ Cardinality(InCritical(g)) <= 1
           /\ \A t \in InCritical(g) : f[g].mu = t
    /\ \A i, j \in 1 .. Len(returned) :
           LET d == returned[i]
               e == returned[j]
           IN  d.g = e.g =>
                   /\ e.k = d.k + 1 => e.pt = d.time /\ e.ps = d.seq
                   /\ i # j => d.k # e.k /\ <<d.pt, d.ps>> # <<e.pt, e.ps>>
                   /\ d.k < e.k => Less64(d.id, e.id)
    /\ \A i \in 1 .. Len(returned) :
           LET e == returned[i]
               nx == NextState(e.pt, e.ps, e.read)
           IN  /\ e.id = Compose(nx.now, f[e.g].workerId, nx.sequence)
               /\ e.k = 1 => e.pt = ctor[e.g].at /\ e.ps = 0

\* C14 witness: two threads called NextId on one generator and returned in
\* the opposite order to the one they acquired the mutex in, the second of
\* them, which entered NextId first, crossing the sequence rollover
C14_Witness ==
    \E i, j \in 1 .. Len(returned) :
        /\ i < j
        /\ returned[i].g = returned[j].g
        /\ returned[i].k = returned[j].k + 1
        /\ returned[i].n < returned[j].n
        /\ returned[i].ps = MaxSequence

\* the calls that read a clock value below the prevTime they found
Backward(e) == e.read < e.pt

\* C15: a call that read the clock below the stored timestamp keeps that
\* timestamp and takes the next sequence, or, with the sequence at 8191,
\* takes the next millisecond and sequence 0; its Id is above every Id
\* returned before the call began, with a timestamp field not below theirs,
\* and equals no other Id of the generator.
C15_BackwardClock ==
    \A i \in 1 .. Len(returned) :
        LET e == returned[i]
        IN  Backward(e) =>
                /\ \/ e.time = e.pt /\ e.seq = e.ps + 1
                   \/ e.ps = MaxSequence /\ e.time = e.pt + 1 /\ e.seq = 0
                /\ TimestampField(e.id) = e.time
                /\ e.floor # NoId =>
                       /\ TimestampField(e.id) >= TimestampField(e.floor)
                       /\ Less64(e.floor, e.id)
                /\ \A j \in 1 .. Len(returned) :
                       j # i /\ returned[j].g = e.g => returned[j].id # e.id

\* C15 witness: two calls in a row read the clock below the stored
\* timestamp, the second exhausted the sequence, and the generator's
\* timestamp is now above every clock value read so far
C15_Witness ==
    \E i, j \in 1 .. Len(returned) :
        /\ returned[i].g = returned[j].g
        /\ returned[j].k = returned[i].k + 1
        /\ Backward(returned[i])
        /\ Backward(returned[j])
        /\ returned[j].ps = MaxSequence
        /\ f[returned[j].g].prevTime > maxRead[returned[j].g]
        /\ f[returned[j].g].prevTime > clock

\* C16: no step changes the worker id of a generator that exists, or removes
\* the generator; every Id a generator returned carries the worker id it was
\* constructed with, so all its Ids carry the same worker field.
C16_WorkerIdFrozen ==
    /\ [][\A g \in DOMAIN f :
             g \in DOMAIN f' /\ f'[g].workerId = f[g].workerId]_vars
    /\ [](\A i \in 1 .. Len(returned) :
             /\ WorkerField(returned[i].id) = f[returned[i].g].workerId
             /\ f[returned[i].g].workerId = ctor[returned[i].g].arg % MaxWorkerId
             /\ \A j \in 1 .. Len(returned) :
                    returned[j].g = returned[i].g =>
                        WorkerField(returned[j].id) = WorkerField(returned[i].id))

\* C16 witness: a generator with worker id 1022 returned Ids on both sides
\* of a sequence rollover
C16_Witness ==
    \E i, j \in 1 .. Len(returned) :
        /\ returned[i].g = returned[j].g
        /\ returned[i].time < returned[j].time
        /\ returned[j].ps = MaxSequence
        /\ f[returned[i].g].workerId = 1022
        /\ WorkerField(returned[i].id) = 1022

\* C17: the sequence a generator holds is in 0..8191 in every state, from
\* construction on; no step lowers the timestamp it holds; the sequence of
\* every returned Id is in 0..8191 and leaves the worker field as it is.
C17_StoredState ==
    /\ [](\A g \in DOMAIN f : f[g].sequence \in 0 .. MaxSequence)
    /\ [][\A g \in DOMAIN f : f'[g].prevTime >= f[g].prevTime]_vars
    /\ [](\A i \in 1 .. Len(returned) :
             /\ returned[i].seq \in 0 .. MaxSequence
             /\ SequenceField(returned[i].id) = returned[i].seq
             /\ WorkerField(returned[i].id) = f[returned[i].g].workerId)

\* C17 witness: the generator holds sequence 8191, after a call that read
\* the clock below the timestamp it holds
C17_Witness ==
    \E g \in DOMAIN f :
        /\ f[g].sequence = MaxSequence
        /\ f[g].workerId > 0
        /\ \E i \in 1 .. Len(returned) :
               /\ returned[i].g = g
               /\ returned[i].seq = MaxSequence
               /\ Backward(returned[i])

\* C18: the timestamp field of a returned Id is not below the clock value
\* its call read; a fresh generator holds the clock value its constructor
\* read; and a step that leaves a generator with a new timestamp above every
\* clock value read so far, by its constructor or by NextId, is the store of a
\* call that found sequence 8191 and goes one millisecond beyond the
\* timestamp it found, to sequence 0.
C18_AheadOnlyByExhaustion ==
    /\ [](\A i \in 1 .. Len(returned) :
             /\ TimestampField(returned[i].id) >= returned[i].read
             /\ returned[i].time > Max(returned[i].read, returned[i].pt) =>
                    /\ returned[i].ps = MaxSequence
                    /\ returned[i].time = returned[i].pt + 1)
    /\ [](\A g \in DOMAIN f : calls[g] = 0 => f[g].prevTime = maxRead[g])
    /\ [][\A g \in DOMAIN f :
             f'[g].prevTime # f[g].prevTime /\ f'[g].prevTime > maxRead'[g] =>
                 /\ f[g].sequence = MaxSequence
                 /\ f'[g].prevTime = f[g].prevTime + 1
                 /\ f'[g].sequence = 0]_vars

\* C18 witness: a generator made by WithHostId or WithRandomId holds a
\* timestamp one above every clock value read, after a call that found
\* sequence 8191
C18_Witness ==
    \E i \in 1 .. Len(returned) :
        LET g == returned[i].g
        IN  /\ ctor[g].via # "New"
            /\ returned[i].ps = MaxSequence
            /\ TimestampField(returned[i].id) > returned[i].read
            /\ f[g].prevTime = maxRead[g] + 1
            /\ f[g].sequence = 0

====
